---- MODULE Spec2Model ----
(***************************************************************************)
(* serde_either: the either-types StringOrStruct<S>,                       *)
(* StringOrStructOrVec<S,V> and SingleOrVec<S>, their shape-dispatch       *)
(* Deserialize implementations (src/src/de.rs) and their pass-through      *)
(* Serialize implementations (src/src/se.rs).                              *)
(*                                                                         *)
(* Texts are sequences of code points, byte strings are sequences of       *)
(* bytes; both live in the field "text" of a Value.                        *)
(***************************************************************************)
EXTENDS Integers, Sequences, FiniteSets, TLC

\* ------------------------------------------------------------------ bounds
\* longest text (in code points) and longest byte string (in bytes)
MaxTextLen == 2
\* longest sequence value (in elements)
MaxSeqLen == 3

\* ------------------------------------------------------- the Value universe
\* serde_value::Value's 19 variants, as matched in unexpected()
ValueKinds ==
    {"Bool", "U8", "U16", "U32", "U64", "I8", "I16", "I32", "I64", "F32", "F64",
     "Char", "String", "Unit", "Option", "Newtype", "Seq", "Map", "Bytes"}

UnsignedKinds == {"U8", "U16", "U32", "U64"}
SignedKinds == {"I8", "I16", "I32", "I64"}
FloatKinds == {"F32", "F64"}

\* 'A' and U+00E9 (one byte and two bytes in UTF-8)
CodePoints == {65, 233}
\* 'A', the two bytes of U+00E9, and a byte that no UTF-8 text contains
ByteAlphabet == {65, 195, 169, 255}

Texts == UNION {[1..n -> CodePoints] : n \in 0..MaxTextLen}
ByteStrings == UNION {[1..n -> ByteAlphabet] : n \in 0..MaxTextLen}

Scalar(kind, num, text) == [kind |-> kind, num |-> num, text |-> text]

Entry(key, val) == [key |-> key, val |-> val]

\* maps with string keys; at most one entry per key (a BTreeMap)
MapBodies ==
    { n \cup t \cup x :
        n \in {{}} \cup {{Entry("number", s)} :
                  s \in {Scalar("U64", 42, <<>>), Scalar("I64", -50, <<>>),
                         Scalar("String", 0, <<65>>)}},
        t \in {{}} \cup {{Entry("text", s)} :
                  s \in {Scalar("String", 0, <<65>>), Scalar("String", 0, <<>>),
                         Scalar("U8", 1, <<>>)}},
        x \in {{}, {Entry("extra", Scalar("Bool", 0, <<>>))}} }

Item(kind, num, text, fields) ==
    [kind |-> kind, num |-> num, text |-> text, fields |-> fields]

\* the elements of sequence values: scalars and record objects
Items ==
    {Item("U64", 1, <<>>, {}), Item("U64", 300, <<>>, {}),
     Item("String", 0, <<65>>, {}),
     Item("Map", 0, <<>>, {Entry("number", Scalar("U64", 42, <<>>)),
                           Entry("text", Scalar("String", 0, <<65>>))})}

Val(kind, num, text, fields, elems) ==
    [kind |-> kind, num |-> num, text |-> text, fields |-> fields, elems |-> elems]

ScalarToValue(s) == Val(s.kind, s.num, s.text, {}, <<>>)
ItemToValue(i) == Val(i.kind, i.num, i.text, i.fields, <<>>)

SeqBodies == UNION {[1..n -> Items] : n \in 0..MaxSeqLen}

Values ==
    {Val("Bool", b, <<>>, {}, <<>>) : b \in {0, 1}}
    \cup {Val(k, n, <<>>, {}, <<>>) : k \in UnsignedKinds, n \in {1, 18}}
    \cup {Val("U64", 300, <<>>, {}, <<>>)}
    \cup {Val(k, n, <<>>, {}, <<>>) : k \in SignedKinds, n \in {-50, 42}}
    \cup {Val(k, 2, <<>>, {}, <<>>) : k \in FloatKinds}
    \cup {Val("Char", 0, <<c>>, {}, <<>>) : c \in CodePoints}
    \cup {Val("String", 0, t, {}, <<>>) : t \in Texts}
    \cup {Val(k, 0, <<>>, {}, <<>>) : k \in {"Unit", "Option", "Newtype"}}
    \cup {Val("Seq", 0, <<>>, {}, e) : e \in SeqBodies}
    \cup {Val("Map", 0, <<>>, f, <<>>) : f \in MapBodies}
    \cup {Val("Bytes", 0, b, {}, <<>>) : b \in ByteStrings}

NoValue == Val("None", 0, <<>>, {}, <<>>)

\* ------------------------------------------------------------------ errors
Unexp(kind, num, text) == [kind |-> kind, num |-> num, text |-> text]
NoUnexp == Unexp("None", 0, <<>>)

Error(class, unexp, expected) ==
    [class |-> class, unexp |-> unexp, expected |-> expected]
NoError == Error("None", NoUnexp, "")

\* serde::de::Error::invalid_type
invalid_type(unexp, expected) == Error("invalid_type", unexp, expected)

\* what the front-end decoder can fail with while the input is buffered
FrontEndErrors ==
    {Error("syntax", NoUnexp, "EOF while parsing a value"),
     Error("syntax", NoUnexp, "expected value")}

\* the outcome of Value::deserialize(deserializer)
FeOk(v) == [ok |-> TRUE, value |-> v, err |-> NoError]
FeErr(e) == [ok |-> FALSE, value |-> NoValue, err |-> e]
FrontEndInputs == {FeOk(v) : v \in Values} \cup {FeErr(e) : e \in FrontEndErrors}

\* ------------------------------------------------------- payload decoders
\* A payload is a value of a Rust type: ty names the type; num, text and elems
\* hold a number, a text and the elements of a vector.
Elem(ty, num, text) == [ty |-> ty, num |-> num, text |-> text]
Payload(ty, num, text, elems) ==
    [ty |-> ty, num |-> num, text |-> text, elems |-> elems]
NoPayload == Payload("None", 0, <<>>, <<>>)
PayloadToElem(p) == Elem(p.ty, p.num, p.text)
ElemToPayload(e) == Payload(e.ty, e.num, e.text, <<>>)

DOk(p) == [ok |-> TRUE, val |-> p, err |-> NoError]
DErr(e) == [ok |-> FALSE, val |-> NoPayload, err |-> e]

\* the payload types bound to S and V
PayloadTypes == {"String", "SimpleStruct", "U8", "VecU8", "VecSimpleStruct"}
\* Vec<S>
VecOf(ty) == "Vec" \o ty
VecTypes == {VecOf(t) : t \in PayloadTypes}
ElemOf(ty) == CHOOSE t \in PayloadTypes : VecOf(t) = ty

\* serde::de::Unexpected of a value, as a visitor's default methods report it
SerdeUnexpected(v) ==
    CASE v.kind = "Bool" -> Unexp("Bool", v.num, <<>>)
      [] v.kind \in UnsignedKinds -> Unexp("Unsigned", v.num, <<>>)
      [] v.kind \in SignedKinds -> Unexp("Signed", v.num, <<>>)
      [] v.kind \in FloatKinds -> Unexp("Float", v.num, <<>>)
      [] v.kind = "Char" -> Unexp("Char", 0, v.text)
      [] v.kind = "String" -> Unexp("Str", 0, v.text)
      [] v.kind = "Bytes" -> Unexp("Bytes", 0, v.text)
      [] v.kind = "Newtype" -> Unexp("NewtypeStruct", 0, <<>>)
      [] OTHER -> Unexp(v.kind, 0, <<>>)

\* String::from_utf8 on the one-byte and two-byte forms; the byte alphabet
\* holds no lead byte of a longer form
RECURSIVE Utf8Decode(_)
Utf8Decode(bytes) ==
    IF bytes = <<>> THEN [ok |-> TRUE, text |-> <<>>]
    ELSE IF bytes[1] < 128
    THEN LET rest == Utf8Decode(Tail(bytes))
         IN  [ok |-> rest.ok, text |-> <<bytes[1]>> \o rest.text]
    ELSE IF /\ bytes[1] >= 194 /\ bytes[1] <= 223 /\ Len(bytes) >= 2
            /\ bytes[2] >= 128 /\ bytes[2] <= 191
    THEN LET rest == Utf8Decode(Tail(Tail(bytes)))
         IN  [ok |-> rest.ok,
              text |-> <<(bytes[1] - 192) * 64 + (bytes[2] - 128)>> \o rest.text]
    ELSE [ok |-> FALSE, text |-> <<>>]

\* String::deserialize(ValueDeserializer::new(value))
DecodeString(v) ==
    CASE v.kind \in {"String", "Char"} -> DOk(Payload("String", 0, v.text, <<>>))
      [] v.kind = "Bytes" ->
            LET u == Utf8Decode(v.text)
            IN  IF u.ok THEN DOk(Payload("String", 0, u.text, <<>>))
                ELSE DErr(Error("invalid_value", SerdeUnexpected(v), "a string"))
      [] OTHER -> DErr(invalid_type(SerdeUnexpected(v), "a string"))

\* an integer type's deserialize: every integer kind is accepted when in range
DecodeInt(v, ty, lo, hi) ==
    IF v.kind \in UnsignedKinds \cup SignedKinds
    THEN IF v.num >= lo /\ v.num <= hi
         THEN DOk(Payload(ty, v.num, <<>>, <<>>))
         ELSE DErr(Error("invalid_value", SerdeUnexpected(v), ty))
    ELSE DErr(invalid_type(SerdeUnexpected(v), ty))

U8Max == 255
I32Max == 2147483647
DecodeU8(v) == DecodeInt(v, "U8", 0, U8Max)
DecodeI32(v) == DecodeInt(v, "I32", (-I32Max) - 1, I32Max)

HasField(fields, key) == \E e \in fields : e.key = key
FieldOf(fields, key) == ScalarToValue((CHOOSE e \in fields : e.key = key).val)

\* the derived Deserialize of SimpleStruct {number: i32, text: String}: a map
\* by field name (entries visited in key order, unknown keys ignored), a
\* sequence by position
DecodeSimpleStruct(v) ==
    CASE v.kind = "Map" ->
            LET hasN == HasField(v.fields, "number")
                hasT == HasField(v.fields, "text")
                n == IF hasN THEN DecodeI32(FieldOf(v.fields, "number"))
                     ELSE DErr(Error("missing_field", NoUnexp, "number"))
                t == IF hasT THEN DecodeString(FieldOf(v.fields, "text"))
                     ELSE DErr(Error("missing_field", NoUnexp, "text"))
            IN  IF hasN /\ ~n.ok THEN n
                ELSE IF hasT /\ ~t.ok THEN t
                ELSE IF ~n.ok THEN n
                ELSE IF ~t.ok THEN t
                ELSE DOk(Payload("SimpleStruct", n.val.num, t.val.text, <<>>))
      [] v.kind = "Seq" ->
            LET len == Len(v.elems)
                short(k) == DErr(Error("invalid_length", Unexp("None", k, <<>>),
                                       "struct SimpleStruct with 2 elements"))
                n == IF len >= 1 THEN DecodeI32(ItemToValue(v.elems[1])) ELSE short(0)
                t == IF len >= 2 THEN DecodeString(ItemToValue(v.elems[2])) ELSE short(1)
            IN  IF ~n.ok THEN n
                ELSE IF ~t.ok THEN t
                ELSE IF len > 2
                THEN DErr(Error("invalid_length", Unexp("None", len, <<>>),
                                "fewer elements in sequence"))
                ELSE DOk(Payload("SimpleStruct", n.val.num, t.val.text, <<>>))
      [] OTHER -> DErr(invalid_type(SerdeUnexpected(v), "struct SimpleStruct"))

\* S::deserialize(ValueDeserializer::new(value)) for the payload type ty
RECURSIVE Decode(_, _)
\* Vec::<T>::deserialize: a sequence only, element by element, first error wins
DecodeVec(ty, v) ==
    IF v.kind = "Seq"
    THEN LET rs == [i \in 1..Len(v.elems) |->
                       Decode(ElemOf(ty), ItemToValue(v.elems[i]))]
             bad == {i \in 1..Len(v.elems) : ~rs[i].ok}
         IN  IF bad # {}
             THEN rs[CHOOSE i \in bad : \A j \in bad : i <= j]
             ELSE DOk(Payload(ty, 0, <<>>,
                              [i \in 1..Len(v.elems) |-> PayloadToElem(rs[i].val)]))
    ELSE DErr(invalid_type(SerdeUnexpected(v), "a sequence"))

Decode(ty, v) ==
    CASE ty = "String" -> DecodeString(v)
      [] ty = "U8" -> DecodeU8(v)
      [] ty = "SimpleStruct" -> DecodeSimpleStruct(v)
      [] OTHER -> DecodeVec(ty, v)

\* ------------------------------------------------------- the either-types
Targets == {"StringOrStructOrVec", "StringOrStruct", "SingleOrVec"}

\* Result<Self, D::Error>
Ok(variant, payload) ==
    [ok |-> TRUE, variant |-> variant, payload |-> payload, err |-> NoError]
Err(e) == [ok |-> FALSE, variant |-> "None", payload |-> NoPayload, err |-> e]
NoResult == [ok |-> FALSE, variant |-> "None", payload |-> NoPayload, err |-> NoError]

\* one invocation of a payload decoder: the generic slot and the type bound to it
Invocation(slot, ty) == [slot |-> slot, ty |-> ty]

\* the outcome of a match: the result and the payload decoders it invoked
Outcome(res, calls) == [res |-> res, calls |-> calls]

\* Ok(Self::Variant(T::deserialize(ValueDeserializer::new(value))?))
Wrap(variant, slot, ty, d) ==
    Outcome(IF d.ok THEN Ok(variant, d.val) ELSE Err(d.err),
            <<Invocation(slot, ty)>>)

\* unexpected with the signed integers cast to unsigned
unexpected_SignedAsUnsigned(value) ==
    CASE value.kind \in SignedKinds ->
            Unexp("Unsigned", IF value.num < 0 THEN -value.num ELSE value.num, <<>>)
      [] OTHER -> SerdeUnexpected(value)

unexpected(value) ==
    CASE value.kind = "Bool" -> Unexp("Bool", value.num, <<>>)
      [] value.kind = "U8" -> Unexp("Unsigned", value.num, <<>>)
      [] value.kind = "U16" -> Unexp("Unsigned", value.num, <<>>)
      [] value.kind = "U32" -> Unexp("Unsigned", value.num, <<>>)
      [] value.kind = "U64" -> Unexp("Unsigned", value.num, <<>>)
      [] value.kind = "I8" -> Unexp("Signed", value.num, <<>>)
      [] value.kind = "I16" -> Unexp("Signed", value.num, <<>>)
      [] value.kind = "I32" -> Unexp("Signed", value.num, <<>>)
      [] value.kind = "I64" -> Unexp("Signed", value.num, <<>>)
      [] value.kind = "F32" -> Unexp("Float", value.num, <<>>)
      [] value.kind = "F64" -> Unexp("Float", value.num, <<>>)
      [] value.kind = "Char" -> Unexp("Char", 0, value.text)
      [] value.kind = "String" -> Unexp("Str", 0, value.text)
      [] value.kind = "Unit" -> Unexp("Unit", 0, <<>>)
      [] value.kind = "Option" -> Unexp("Option", 0, <<>>)
      [] value.kind = "Newtype" -> Unexp("NewtypeStruct", 0, <<>>)
      [] value.kind = "Seq" -> Unexp("Seq", 0, <<>>)
      [] value.kind = "Map" -> Unexp("Map", 0, <<>>)
      [] value.kind = "Bytes" -> Unexp("Bytes", 0, value.text)

\* the expectation strings of the two Deserialize impls
ExpectedStringOrStructOrVec == "String, Struct or Vec"
ExpectedStringOrStruct == "String or Struct"

\* TryBuffer with a front-end error replaced by the unit value
TryBuffer_DefaultOnError(input) ==
    [ok |-> TRUE, value |-> IF input.ok THEN input.value
                            ELSE Val("Unit", 0, <<>>, {}, <<>>),
     res |-> NoResult]

\* Value::deserialize(deserializer)?: the buffered value, or the front-end's
\* error returned at once
TryBuffer(input) ==
    IF input.ok THEN [ok |-> TRUE, value |-> input.value, res |-> NoResult]
    ELSE [ok |-> FALSE, value |-> NoValue, res |-> Err(input.err)]

\* MatchArm with a string handed to the structured payload's arm
MatchArm_StringToStruct(value) ==
    CASE value.kind \in {"String", "Bytes", "Map"} -> "Struct"
      [] value.kind = "Seq" -> "Vec"
      [] OTHER -> "Err"

\* the arm of deserialize_with_expected's match that a value takes
\* MatchArm with only String in the first arm: Bytes falls to the last arm
MatchArm_BytesUnmatched(value) ==
    CASE value.kind = "String" -> "String"
      [] value.kind = "Seq" -> "Vec"
      [] value.kind = "Map" -> "Struct"
      [] OTHER -> "Err"

\* MatchArm with Char in the first arm, next to String and Bytes
MatchArm_CharAsString(value) ==
    CASE value.kind \in {"String", "Bytes", "Char"} -> "String"
      [] value.kind = "Seq" -> "Vec"
      [] value.kind = "Map" -> "Struct"
      [] OTHER -> "Err"

MatchArm(value) ==
    CASE value.kind \in {"String", "Bytes"} -> "String"
      [] value.kind = "Seq" -> "Vec"
      [] value.kind = "Map" -> "Struct"
      [] OTHER -> "Err"

\* deserialize_with_expected with the payload types of the Seq and Map arms swapped
deserialize_with_expected_SwapArms(S, V, value, expected) ==
    LET arm == MatchArm(value)
    IN  CASE arm = "String" -> Wrap("String", "String", "String", DecodeString(value))
          [] arm = "Vec" -> Wrap("Struct", "S", S, Decode(S, value))
          [] arm = "Struct" -> Wrap("Vec", "V", V, Decode(V, value))
          [] OTHER -> Outcome(Err(invalid_type(unexpected(value), expected)), <<>>)

\* deserialize_with_expected with a sequence tried as S first, then as V
deserialize_with_expected_SeqTriesS(S, V, value, expected) ==
    LET arm == MatchArm(value)
    IN  CASE arm = "String" -> Wrap("String", "String", "String", DecodeString(value))
          [] arm = "Vec" ->
                IF Decode(S, value).ok
                THEN Wrap("Struct", "S", S, Decode(S, value))
                ELSE Outcome(Wrap("Vec", "V", V, Decode(V, value)).res,
                             <<Invocation("S", S), Invocation("V", V)>>)
          [] arm = "Struct" -> Wrap("Struct", "S", S, Decode(S, value))
          [] OTHER -> Outcome(Err(invalid_type(unexpected(value), expected)), <<>>)

\* deserialize_with_expected with a sequence refused as a shape mismatch
deserialize_with_expected_SeqMismatch(S, V, value, expected) ==
    LET arm == MatchArm(value)
    IN  CASE arm = "String" -> Wrap("String", "String", "String", DecodeString(value))
          [] arm = "Struct" -> Wrap("Struct", "S", S, Decode(S, value))
          [] OTHER -> Outcome(Err(invalid_type(unexpected(value), expected)), <<>>)

\* deserialize_with_expected with a failed payload decode reported as a shape
\* mismatch
deserialize_with_expected_MaskPayloadError(S, V, value, expected) ==
    LET arm == MatchArm(value)
        o == CASE arm = "String" ->
                    Wrap("String", "String", "String", DecodeString(value))
               [] arm = "Vec" -> Wrap("Vec", "V", V, Decode(V, value))
               [] arm = "Struct" -> Wrap("Struct", "S", S, Decode(S, value))
               [] OTHER -> Outcome(NoResult, <<>>)
    IN  IF o.res.ok THEN o
        ELSE Outcome(Err(invalid_type(unexpected(value), expected)), o.calls)

\* the match of deserialize_with_expected on the buffered value
deserialize_with_expected(S, V, value, expected) ==
    LET arm == MatchArm(value)
    IN  CASE arm = "String" -> Wrap("String", "String", "String", DecodeString(value))
          [] arm = "Vec" -> Wrap("Vec", "V", V, Decode(V, value))
          [] arm = "Struct" -> Wrap("Struct", "S", S, Decode(S, value))
          [] OTHER -> Outcome(Err(invalid_type(unexpected(value), expected)), <<>>)

\* StringOrStruct's collapse with the Vec variant passed through
StringOrStruct_collapse_KeepVec(res) == Ok(res.variant, res.payload)

\* the match of StringOrStruct::deserialize on the dispatcher's Ok value
\* StringOrStruct_collapse with the Vec variant refused as a shape mismatch
StringOrStruct_collapse_VecRefused(res) ==
    CASE res.variant = "String" -> Ok("String", res.payload)
      [] res.variant = "Struct" -> Ok("Struct", res.payload)
      [] res.variant = "Vec" ->
            Err(invalid_type(Unexp("Seq", 0, <<>>), ExpectedStringOrStruct))

StringOrStruct_collapse(res) ==
    CASE res.variant = "String" -> Ok("String", res.payload)
      [] res.variant \in {"Struct", "Vec"} -> Ok("Struct", res.payload)

\* SingleOrVec's match with the shape check of the other two either-types
SingleOrVec_match_FailFast(S, value) ==
    CASE value.kind = "Seq" -> Wrap("Vec", "VecS", VecOf(S), Decode(VecOf(S), value))
      [] value.kind \in {"String", "Bytes", "Map"} ->
            Wrap("Single", "S", S, Decode(S, value))
      [] OTHER -> Outcome(Err(invalid_type(unexpected(value), "Single or Vec")), <<>>)

\* SingleOrVec's match with S tried first and the sequence of S second
SingleOrVec_match_SingleFirst(S, value) ==
    IF value.kind # "Seq" \/ Decode(S, value).ok
    THEN Wrap("Single", "S", S, Decode(S, value))
    ELSE Outcome(Wrap("Vec", "VecS", VecOf(S), Decode(VecOf(S), value)).res,
                 <<Invocation("S", S), Invocation("VecS", VecOf(S))>>)

\* the match of SingleOrVec::deserialize on the buffered value
SingleOrVec_match(S, value) ==
    IF value.kind = "Seq"
    THEN Wrap("Vec", "VecS", VecOf(S), Decode(VecOf(S), value))
    ELSE Wrap("Single", "S", S, Decode(S, value))

\* ExpectedOf with the three-way dispatcher's text for both either-types
ExpectedOf_SameText(target) == ExpectedStringOrStructOrVec

\* the expected argument each target passes to the dispatcher
ExpectedOf(target) ==
    IF target = "StringOrStruct" THEN ExpectedStringOrStruct
    ELSE ExpectedStringOrStructOrVec

\* --------------------------------------------------------------- encoding
\* the payloads of each type that calling code encodes
ElemsOf(ty) ==
    CASE ty = "String" -> {Elem("String", 0, t) : t \in {<<>>, <<65>>}}
      [] ty = "U8" -> {Elem("U8", n, <<>>) : n \in {1, 255}}
      [] ty = "SimpleStruct" -> {Elem("SimpleStruct", 42, <<65>>),
                                 Elem("SimpleStruct", -50, <<>>)}
      [] OTHER -> {}

PayloadsOf(ty) ==
    CASE ty = "String" -> {Payload("String", 0, t, <<>>) : t \in Texts}
      [] ty \in {"U8", "SimpleStruct"} -> {ElemToPayload(e) : e \in ElemsOf(ty)}
      [] OTHER ->
            {Payload(ty, 0, <<>>, es) :
                es \in UNION {[1..n -> ElemsOf(ElemOf(ty))] : n \in 0..MaxSeqLen}}

Either(target, variant, payload) ==
    [target |-> target, variant |-> variant, payload |-> payload]

Eithers ==
    {Either(t, "String", p) :
        t \in {"StringOrStructOrVec", "StringOrStruct"}, p \in PayloadsOf("String")}
    \cup {Either(t, "Struct", p) :
        t \in {"StringOrStructOrVec", "StringOrStruct"},
        p \in UNION {PayloadsOf(ty) : ty \in PayloadTypes}}
    \cup {Either("StringOrStructOrVec", "Vec", p) :
        p \in UNION {PayloadsOf(ty) : ty \in PayloadTypes}}
    \cup {Either("SingleOrVec", "Single", p) :
        p \in UNION {PayloadsOf(ty) : ty \in PayloadTypes}}
    \cup {Either("SingleOrVec", "Vec", p) :
        p \in UNION {PayloadsOf(ty) : ty \in VecTypes}}

\* the back-ends: one that builds a Value tree, one with no form for a struct
Serializers == {"ToValue", "NoStruct"}

SOk(v) == [ok |-> TRUE, out |-> v, err |-> NoError]
SErr(e) == [ok |-> FALSE, out |-> NoValue, err |-> e]
StructUnsupported == Error("ser", NoUnexp, "struct is not supported")

\* the derived Serialize of SimpleStruct: a map of its two fields
StructFields(num, text) ==
    {Entry("number", Scalar("I32", num, <<>>)),
     Entry("text", Scalar("String", 0, text))}

ElemToItem(e) ==
    CASE e.ty = "String" -> Item("String", 0, e.text, {})
      [] e.ty = "U8" -> Item("U8", e.num, <<>>, {})
      [] e.ty = "SimpleStruct" -> Item("Map", 0, <<>>, StructFields(e.num, e.text))

\* payload.serialize(serializer)
SerializePayload(ser, payload) ==
    CASE payload.ty = "String" -> SOk(Val("String", 0, payload.text, {}, <<>>))
      [] payload.ty = "U8" -> SOk(Val("U8", payload.num, <<>>, {}, <<>>))
      [] payload.ty = "SimpleStruct" ->
            IF ser = "NoStruct" THEN SErr(StructUnsupported)
            ELSE SOk(Val("Map", 0, <<>>, StructFields(payload.num, payload.text), <<>>))
      [] OTHER ->
            IF ser = "NoStruct" /\ \E i \in 1..Len(payload.elems) :
                                      payload.elems[i].ty = "SimpleStruct"
            THEN SErr(StructUnsupported)
            ELSE SOk(Val("Seq", 0, <<>>, {},
                         [i \in 1..Len(payload.elems) |-> ElemToItem(payload.elems[i])]))

\* StringOrStructOrVec's serialize with the String variant written as a
\* one-entry map keyed by the variant name
StringOrStructOrVec_serialize_Tagged(ser, e) ==
    CASE e.variant = "String" ->
            SOk(Val("Map", 0, <<>>,
                    {Entry("String", Scalar("String", 0, e.payload.text))}, <<>>))
      [] e.variant = "Struct" -> SerializePayload(ser, e.payload)
      [] e.variant = "Vec" -> SerializePayload(ser, e.payload)

StringOrStructOrVec_serialize(ser, e) ==
    CASE e.variant = "String" -> SerializePayload(ser, e.payload)
      [] e.variant = "Struct" -> SerializePayload(ser, e.payload)
      [] e.variant = "Vec" -> SerializePayload(ser, e.payload)

\* StringOrStruct's serialize with the variant name written as a one-entry map
StringOrStruct_serialize_Tagged(ser, e) ==
    CASE e.variant = "String" ->
            SOk(Val("Map", 0, <<>>,
                    {Entry("String", Scalar("String", 0, e.payload.text))}, <<>>))
      [] e.variant = "Struct" -> SerializePayload(ser, e.payload)

\* StringOrStruct's serialize as the derived, externally tagged form of the
\* Struct variant: a one-entry map keyed by the variant name
StringOrStruct_serialize_StructTagged(ser, e) ==
    CASE e.variant = "String" -> SerializePayload(ser, e.payload)
      [] e.variant = "Struct" ->
            IF SerializePayload(ser, e.payload).ok
            THEN SOk(Val("Map", 0, <<>>,
                         {Entry("Struct", Scalar(SerializePayload(ser, e.payload).out.kind,
                                                 e.payload.num, e.payload.text))}, <<>>))
            ELSE SerializePayload(ser, e.payload)

StringOrStruct_serialize(ser, e) ==
    CASE e.variant = "String" -> SerializePayload(ser, e.payload)
      [] e.variant = "Struct" -> SerializePayload(ser, e.payload)

\* SingleOrVec's serialize with a Single value written as a sequence of one
SingleOrVec_serialize_SingleAsSeq(ser, e) ==
    CASE e.variant = "Single" /\ e.payload.ty \in {"String", "U8", "SimpleStruct"} ->
            IF SerializePayload(ser, e.payload).ok
            THEN SOk(Val("Seq", 0, <<>>, {}, <<ElemToItem(PayloadToElem(e.payload))>>))
            ELSE SerializePayload(ser, e.payload)
      [] OTHER -> SerializePayload(ser, e.payload)

SingleOrVec_serialize(ser, e) ==
    CASE e.variant = "Single" -> SerializePayload(ser, e.payload)
      [] e.variant = "Vec" -> SerializePayload(ser, e.payload)

serialize(ser, e) ==
    CASE e.target = "StringOrStructOrVec" -> StringOrStructOrVec_serialize(ser, e)
      [] e.target = "StringOrStruct" -> StringOrStruct_serialize(ser, e)
      [] e.target = "SingleOrVec" -> SingleOrVec_serialize(ser, e)

\* the wire formats of a round trip: the Value tree handed over as it is, and
\* JSON text, which keeps of a number only its sign (serde_json reads a
\* non-negative integer as u64 and a negative one as i64)
Formats == {"Value", "Json"}

JsonKind(kind, num) ==
    IF kind \in UnsignedKinds \cup SignedKinds
    THEN (IF num >= 0 THEN "U64" ELSE "I64")
    ELSE kind

JsonScalar(s) == Scalar(JsonKind(s.kind, s.num), s.num, s.text)
JsonFields(fields) == {Entry(e.key, JsonScalar(e.val)) : e \in fields}
JsonItem(i) == Item(JsonKind(i.kind, i.num), i.num, i.text, JsonFields(i.fields))

\* what the front-end reads back from an encoder's output
Reparse(fmt, v) ==
    IF fmt = "Value" THEN v
    ELSE Val(JsonKind(v.kind, v.num), v.num, v.text, JsonFields(v.fields),
             [i \in 1..Len(v.elems) |-> JsonItem(v.elems[i])])

NoEither == Either("None", "None", NoPayload)
NoEncoding == [ser |-> "None", either |-> NoEither, res |-> SErr(NoError)]

\* ------------------------------------------------------------------ state
\* the callers; Spec runs the calls of one caller, one after the other
NumProcs == 2
Procs == 1..NumProcs
MainProc == 1

NoCall == [target |-> "None", S |-> "None", V |-> "None", input |-> FeErr(NoError)]

\* the calls a caller makes: V is S for StringOrStruct (the dispatcher is
\* instantiated as StringOrStructOrVec::<S, S>) and Vec<S> for SingleOrVec
Calls ==
    {[target |-> "StringOrStructOrVec", S |-> s, V |-> v, input |-> i] :
        s \in PayloadTypes, v \in PayloadTypes, i \in FrontEndInputs}
    \cup {[target |-> "StringOrStruct", S |-> s, V |-> s, input |-> i] :
        s \in PayloadTypes, i \in FrontEndInputs}
    \cup {[target |-> "SingleOrVec", S |-> s, V |-> VecOf(s), input |-> i] :
        s \in PayloadTypes, i \in FrontEndInputs}

\* the calls that decode an encoded either value back as its own type: the
\* slot of the encoded variant is bound to the payload's type, a slot the
\* value does not use to any payload type
RoundTripCalls(e, v) ==
    LET mk(s, t) == [target |-> e.target, S |-> s, V |-> t, input |-> FeOk(v)]
    IN  CASE e.target = "StringOrStruct" ->
                {mk(s, s) : s \in (IF e.variant = "String" THEN PayloadTypes
                                   ELSE {e.payload.ty})}
          [] e.target = "SingleOrVec" ->
                {mk(s, VecOf(s)) : s \in (IF e.variant = "Single" THEN {e.payload.ty}
                                          ELSE {ElemOf(e.payload.ty)})}
          [] OTHER ->
                {mk(s, t) :
                    s \in (IF e.variant = "Struct" THEN {e.payload.ty} ELSE PayloadTypes),
                    t \in (IF e.variant = "Vec" THEN {e.payload.ty} ELSE PayloadTypes)}

VARIABLES
    pc,        \* pc[p]: where caller p's call stands
    call,      \* call[p]: the decode call in progress (target, S, V, input)
    value,     \* value[p]: the Value buffer of the call
    buffered,  \* buffered[p]: how often the call ran Value::deserialize
    invoked,   \* invoked[p]: the payload decoders the call invoked, in order
    result,    \* result[p]: what the call returns
    enc        \* enc[p]: the encode call (serializer, either value, output)

vars == <<pc, call, value, buffered, invoked, result, enc>>

Init ==
    /\ pc = [p \in Procs |-> "idle"]
    /\ call = [p \in Procs |-> NoCall]
    /\ value = [p \in Procs |-> NoValue]
    /\ buffered = [p \in Procs |-> 0]
    /\ invoked = [p \in Procs |-> <<>>]
    /\ result = [p \in Procs |-> NoResult]
    /\ enc = [p \in Procs |-> NoEncoding]

\* a caller invokes T::deserialize(deserializer)
Deserialize(p) ==
    /\ pc[p] = "idle"
    /\ pc' = [pc EXCEPT ![p] = "buffer"]
    /\ \E c \in Calls : call' = [call EXCEPT ![p] = c]
    /\ UNCHANGED <<value, buffered, invoked, result, enc>>

\* let value = Value::deserialize(deserializer)?;
\* BufferValue with one buffer that all calls write (a static Value)
BufferValue_SharedBuffer(p) ==
    /\ pc[p] = "buffer"
    /\ buffered' = [buffered EXCEPT ![p] = @ + 1]
    /\ LET b == TryBuffer(call[p].input)
       IN  IF b.ok
           THEN /\ value' = [q \in Procs |-> b.value]
                /\ pc' = [pc EXCEPT ![p] = "match"]
                /\ UNCHANGED result
           ELSE /\ result' = [result EXCEPT ![p] = b.res]
                /\ pc' = [pc EXCEPT ![p] = "done"]
                /\ UNCHANGED value
    /\ UNCHANGED <<call, invoked, enc>>

BufferValue(p) ==
    /\ pc[p] = "buffer"
    /\ buffered' = [buffered EXCEPT ![p] = @ + 1]
    /\ LET b == TryBuffer(call[p].input)
       IN  IF b.ok
           THEN /\ value' = [value EXCEPT ![p] = b.value]
                /\ pc' = [pc EXCEPT ![p] = "match"]
                /\ UNCHANGED result
           ELSE /\ result' = [result EXCEPT ![p] = b.res]
                /\ pc' = [pc EXCEPT ![p] = "done"]
                /\ UNCHANGED value
    /\ UNCHANGED <<call, invoked, enc>>

\* the match of deserialize_with_expected; the value moves into the
\* ValueDeserializer (or is dropped on return), and ? returns an Err at once
MatchEither(p) ==
    /\ pc[p] = "match"
    /\ call[p].target \in {"StringOrStructOrVec", "StringOrStruct"}
    /\ LET o == deserialize_with_expected(call[p].S, call[p].V, value[p],
                                          ExpectedOf(call[p].target))
       IN  /\ result' = [result EXCEPT ![p] = o.res]
           /\ invoked' = [invoked EXCEPT ![p] = @ \o o.calls]
           /\ pc' = [pc EXCEPT ![p] =
                        IF call[p].target = "StringOrStruct" /\ o.res.ok
                        THEN "collapse" ELSE "done"]
    /\ value' = [value EXCEPT ![p] = NoValue]
    /\ UNCHANGED <<call, buffered, enc>>

\* StringOrStruct::deserialize maps the dispatcher's value to its own variants
Collapse(p) ==
    /\ pc[p] = "collapse"
    /\ result' = [result EXCEPT ![p] = StringOrStruct_collapse(@)]
    /\ pc' = [pc EXCEPT ![p] = "done"]
    /\ UNCHANGED <<call, value, buffered, invoked, enc>>

\* the match of SingleOrVec::deserialize
MatchSingleOrVec(p) ==
    /\ pc[p] = "match"
    /\ call[p].target = "SingleOrVec"
    /\ LET o == SingleOrVec_match(call[p].S, value[p])
       IN  /\ result' = [result EXCEPT ![p] = o.res]
           /\ invoked' = [invoked EXCEPT ![p] = @ \o o.calls]
    /\ pc' = [pc EXCEPT ![p] = "done"]
    /\ value' = [value EXCEPT ![p] = NoValue]
    /\ UNCHANGED <<call, buffered, enc>>

\* a caller invokes either.serialize(serializer)
Serialize(p) ==
    /\ pc[p] = "idle"
    /\ \E ser \in Serializers, e \in Eithers :
          enc' = [enc EXCEPT ![p] =
                     [ser |-> ser, either |-> e, res |-> serialize(ser, e)]]
    /\ pc' = [pc EXCEPT ![p] = "encoded"]
    /\ UNCHANGED <<call, value, buffered, invoked, result>>

\* a caller decodes the output of its encode call back as the same type
DecodeBack(p) ==
    /\ pc[p] = "encoded"
    /\ call[p] = NoCall
    /\ enc[p].res.ok
    /\ \E fmt \in Formats :
          \E c \in RoundTripCalls(enc[p].either, Reparse(fmt, enc[p].res.out)) :
             call' = [call EXCEPT ![p] = c]
    /\ pc' = [pc EXCEPT ![p] = "buffer"]
    /\ UNCHANGED <<value, buffered, invoked, result, enc>>

\* a caller encodes the either value that its decode call returned
EncodeResult(p) ==
    /\ pc[p] = "done"
    /\ enc[p] = NoEncoding
    /\ result[p].ok
    /\ \E ser \in Serializers :
          LET e == Either(call[p].target, result[p].variant, result[p].payload)
          IN  enc' = [enc EXCEPT ![p] =
                         [ser |-> ser, either |-> e, res |-> serialize(ser, e)]]
    /\ pc' = [pc EXCEPT ![p] = "encoded"]
    /\ UNCHANGED <<call, value, buffered, invoked, result>>

\* the call has returned; the caller is free for its next call
Return(p) ==
    /\ pc[p] \in {"done", "encoded"}
    /\ pc' = [pc EXCEPT ![p] = "idle"]
    /\ call' = [call EXCEPT ![p] = NoCall]
    /\ value' = [value EXCEPT ![p] = NoValue]
    /\ buffered' = [buffered EXCEPT ![p] = 0]
    /\ invoked' = [invoked EXCEPT ![p] = <<>>]
    /\ result' = [result EXCEPT ![p] = NoResult]
    /\ enc' = [enc EXCEPT ![p] = NoEncoding]

Next ==
    \/ Deserialize(MainProc)
    \/ BufferValue(MainProc)
    \/ MatchEither(MainProc)
    \/ Collapse(MainProc)
    \/ MatchSingleOrVec(MainProc)
    \/ Serialize(MainProc)
    \/ DecodeBack(MainProc)
    \/ EncodeResult(MainProc)
    \/ Return(MainProc)

Spec == Init /\ [][Next]_vars

\* ------------------------------------------- the two dispatchers side by side
\* the caller that decodes as StringOrStructOrVec<S, S> what MainProc
\* decodes as StringOrStruct<S>
WideProc == 2

\* the same input is handed to StringOrStruct::<S>::deserialize and to
\* StringOrStructOrVec::<S, S>::deserialize
DeserializePair ==
    /\ pc[MainProc] = "idle" /\ pc[WideProc] = "idle"
    /\ \E s \in PayloadTypes, i \in FrontEndInputs :
          call' = [call EXCEPT
                     ![MainProc] = [target |-> "StringOrStruct",
                                    S |-> s, V |-> s, input |-> i],
                     ![WideProc] = [target |-> "StringOrStructOrVec",
                                    S |-> s, V |-> s, input |-> i]]
    /\ pc' = [pc EXCEPT ![MainProc] = "buffer", ![WideProc] = "buffer"]
    /\ UNCHANGED <<value, buffered, invoked, result, enc>>

\* both calls have returned and the caller has compared their results
ReturnPair ==
    /\ pc[MainProc] = "done" /\ pc[WideProc] = "done"
    /\ pc' = [pc EXCEPT ![MainProc] = "idle", ![WideProc] = "idle"]
    /\ call' = [call EXCEPT ![MainProc] = NoCall, ![WideProc] = NoCall]
    /\ buffered' = [buffered EXCEPT ![MainProc] = 0, ![WideProc] = 0]
    /\ invoked' = [invoked EXCEPT ![MainProc] = <<>>, ![WideProc] = <<>>]
    /\ result' = [result EXCEPT ![MainProc] = NoResult, ![WideProc] = NoResult]
    /\ UNCHANGED <<value, enc>>

NextPair ==
    \/ DeserializePair
    \/ \E p \in {MainProc, WideProc} : BufferValue(p)
    \/ \E p \in {MainProc, WideProc} : MatchEither(p)
    \/ Collapse(MainProc)
    \/ ReturnPair

SpecPair == Init /\ [][NextPair]_vars

\* ------------------------------------------------- calls of several callers
\* the inputs of the interleaved calls: a string, a sequence, a record object
\* and a front-end error
ConcInputs ==
    {FeOk(Val("String", 0, <<65>>, {}, <<>>)),
     FeOk(Val("Seq", 0, <<>>, {}, <<Item("U64", 1, <<>>, {})>>)),
     FeOk(Val("Map", 0, <<>>, {Entry("number", Scalar("U64", 42, <<>>)),
                               Entry("text", Scalar("String", 0, <<65>>))}, <<>>)),
     FeErr(Error("syntax", NoUnexp, "expected value"))}

ConcCalls ==
    {c \in Calls :
        /\ c.input \in ConcInputs
        /\ \/ c.target = "StringOrStructOrVec" /\ c.S = "SimpleStruct" /\ c.V = "VecU8"
           \/ c.target = "StringOrStruct" /\ c.S = "SimpleStruct"
           \/ c.target = "SingleOrVec" /\ c.S = "U8"}

ConcEithers ==
    {Either("StringOrStruct", "String", Payload("String", 0, <<65>>, <<>>)),
     Either("SingleOrVec", "Single", Payload("SimpleStruct", 42, <<65>>, <<>>))}

\* one of several callers invokes T::deserialize(deserializer)
DeserializeConc(p) ==
    /\ pc[p] = "idle"
    /\ pc' = [pc EXCEPT ![p] = "buffer"]
    /\ \E c \in ConcCalls : call' = [call EXCEPT ![p] = c]
    /\ UNCHANGED <<value, buffered, invoked, result, enc>>

\* one of several callers invokes either.serialize(serializer)
SerializeConc(p) ==
    /\ pc[p] = "idle"
    /\ \E ser \in Serializers, e \in ConcEithers :
          enc' = [enc EXCEPT ![p] =
                     [ser |-> ser, either |-> e, res |-> serialize(ser, e)]]
    /\ pc' = [pc EXCEPT ![p] = "encoded"]
    /\ UNCHANGED <<call, value, buffered, invoked, result>>

\* the steps of all callers, in any order
NextConc ==
    \E p \in Procs :
        \/ DeserializeConc(p)
        \/ BufferValue(p)
        \/ MatchEither(p)
        \/ Collapse(p)
        \/ MatchSingleOrVec(p)
        \/ SerializeConc(p)
        \/ Return(p)

SpecConc == Init /\ [][NextConc]_vars

\* ------------------------------------------------------------ properties
EitherTargets == {"StringOrStructOrVec", "StringOrStruct"}

\* caller p's decode call has returned, and its front-end produced a value
Decoded(p) == pc[p] = "done" /\ call[p].input.ok
InputOf(p) == call[p].input.value
SlotsOf(p) == [i \in DOMAIN invoked[p] |-> invoked[p][i].slot]

\* C1: for StringOrStructOrVec and StringOrStruct, a String-shaped value decodes
\* to the String variant holding exactly the input text, and neither the S nor
\* the V decoder is invoked on it, whatever S and V are.
C1_StringShapeYieldsString ==
    \A p \in Procs :
        (Decoded(p) /\ call[p].target \in EitherTargets /\ InputOf(p).kind = "String")
        => /\ result[p] = Ok("String", Payload("String", 0, InputOf(p).text, <<>>))
           /\ \A i \in DOMAIN invoked[p] : invoked[p][i].slot \notin {"S", "V"}

\* a string that S = String could itself parse has been decoded
C1_Witness ==
    \E p \in Procs :
        /\ Decoded(p) /\ call[p].target = "StringOrStruct" /\ call[p].S = "String"
        /\ InputOf(p).kind = "String" /\ InputOf(p).text = <<65, 233>>
        /\ result[p].variant = "String"

\* C2: for StringOrStructOrVec and StringOrStruct, a Map-shaped value is
\* re-decoded with the S decoder only; when S succeeds the result is the Struct
\* variant holding S's result, and the result is never String or Vec.
C2_MapShapeYieldsStruct ==
    \A p \in Procs :
        (Decoded(p) /\ call[p].target \in EitherTargets /\ InputOf(p).kind = "Map")
        => LET d == Decode(call[p].S, InputOf(p))
           IN  /\ invoked[p] = <<Invocation("S", call[p].S)>>
               /\ d.ok => result[p] = Ok("Struct", d.val)
               /\ result[p].variant \notin {"String", "Vec"}

\* a complete record object has been decoded into Struct(SimpleStruct)
C2_Witness ==
    \E p \in Procs :
        /\ Decoded(p) /\ call[p].target = "StringOrStructOrVec"
        /\ call[p].S = "SimpleStruct" /\ call[p].V = "VecSimpleStruct"
        /\ InputOf(p).kind = "Map"
        /\ result[p] = Ok("Struct", Payload("SimpleStruct", 42, <<65>>, <<>>))

\* C3: for StringOrStructOrVec, a Seq-shaped value is re-decoded with the V
\* decoder only; when V succeeds the result is the Vec variant holding V's
\* result; S is never invoked and the result is never Struct or String.
C3_SeqShapeYieldsVec ==
    \A p \in Procs :
        (Decoded(p) /\ call[p].target = "StringOrStructOrVec" /\ InputOf(p).kind = "Seq")
        => LET d == Decode(call[p].V, InputOf(p))
           IN  /\ invoked[p] = <<Invocation("V", call[p].V)>>
               /\ d.ok => result[p] = Ok("Vec", d.val)
               /\ result[p].variant \notin {"String", "Struct"}

\* an array of two record objects has been decoded into Vec(Vec<SimpleStruct>)
C3_Witness ==
    \E p \in Procs :
        /\ Decoded(p) /\ call[p].target = "StringOrStructOrVec"
        /\ call[p].S = "SimpleStruct" /\ call[p].V = "VecSimpleStruct"
        /\ InputOf(p).kind = "Seq" /\ Len(InputOf(p).elems) = 2
        /\ result[p].ok /\ result[p].variant = "Vec"
        /\ Len(result[p].payload.elems) = 2

\* C4: for StringOrStructOrVec and StringOrStruct, a value whose top-level shape
\* is none of String, Bytes, Seq, Map fails with the type-mismatch error that
\* carries the description of the actual value and the target's fixed
\* expectation string; no payload decoder is invoked.
C4_OtherShapeIsMismatch ==
    \A p \in Procs :
        (/\ Decoded(p) /\ call[p].target \in EitherTargets
         /\ InputOf(p).kind \notin {"String", "Bytes", "Seq", "Map"})
        => /\ invoked[p] = <<>>
           /\ ~result[p].ok
           /\ result[p].err.class = "invalid_type"
           /\ result[p].err.unexp = SerdeUnexpected(InputOf(p))
           /\ result[p].err.expected =
                 (IF call[p].target = "StringOrStructOrVec"
                  THEN "String, Struct or Vec" ELSE "String or Struct")

\* the signed integer -50 has been refused by StringOrStruct
C4_Witness ==
    \E p \in Procs :
        /\ Decoded(p) /\ call[p].target = "StringOrStruct"
        /\ InputOf(p).kind = "I64" /\ InputOf(p).num = -50
        /\ result[p].err = Error("invalid_type", Unexp("Signed", -50, <<>>),
                                 "String or Struct")

\* C5: for StringOrStruct, a Seq-shaped value is re-decoded with the S decoder
\* and, when S succeeds, the result is the Struct variant holding S's result;
\* a StringOrStruct decode returns no variant but String and Struct.
C5_StringOrStructSeqIsStruct ==
    \A p \in Procs :
        (pc[p] = "done" /\ call[p].target = "StringOrStruct")
        => /\ result[p].ok => result[p].variant \in {"String", "Struct"}
           /\ (call[p].input.ok /\ InputOf(p).kind = "Seq")
              => LET d == Decode(call[p].S, InputOf(p))
                 IN  /\ Len(invoked[p]) = 1 /\ invoked[p][1].ty = call[p].S
                     /\ d.ok => result[p] = Ok("Struct", d.val)

\* an array of two integers has been decoded into Struct(Vec<u8>)
C5_Witness ==
    \E p \in Procs :
        /\ Decoded(p) /\ call[p].target = "StringOrStruct" /\ call[p].S = "VecU8"
        /\ InputOf(p).kind = "Seq"
        /\ result[p] = Ok("Struct", Payload("VecU8", 0, <<>>,
                                            <<Elem("U8", 1, <<>>), Elem("U8", 1, <<>>)>>))

\* the record that a record object spells out
RecordOf(item) ==
    Elem("SimpleStruct", FieldOf(item.fields, "number").num,
         FieldOf(item.fields, "text").text)
IsRecordObject(item) ==
    /\ item.kind = "Map"
    /\ HasField(item.fields, "number") /\ HasField(item.fields, "text")
SeqOfRecordObjects(v) ==
    /\ v.kind = "Seq" /\ Len(v.elems) >= 1
    /\ \A i \in 1..Len(v.elems) : IsRecordObject(v.elems[i])

\* C6: a Seq-shaped input whose elements are record objects fails to decode as
\* StringOrStruct<SimpleStruct> and decodes as StringOrStruct<Vec<SimpleStruct>>
\* into the Struct variant holding the sequence of records.
C6_SeqOfRecordsNeedsVecPayload ==
    \A p \in Procs :
        (/\ Decoded(p) /\ call[p].target = "StringOrStruct"
         /\ SeqOfRecordObjects(InputOf(p)))
        => /\ call[p].S = "SimpleStruct" => ~result[p].ok
           /\ call[p].S = "VecSimpleStruct" =>
                 result[p] = Ok("Struct",
                                Payload("VecSimpleStruct", 0, <<>>,
                                        [i \in 1..Len(InputOf(p).elems) |->
                                            RecordOf(InputOf(p).elems[i])]))

\* an array of two record objects has been refused by StringOrStruct<SimpleStruct>
C6_Witness ==
    \E p \in Procs :
        /\ Decoded(p) /\ call[p].target = "StringOrStruct"
        /\ call[p].S = "SimpleStruct"
        /\ SeqOfRecordObjects(InputOf(p)) /\ Len(InputOf(p).elems) = 2
        /\ ~result[p].ok

\* the one payload decoder that a value of a kind is handed to, by target
BranchSlots(target, kind) ==
    IF target = "SingleOrVec"
    THEN (IF kind = "Seq" THEN <<"VecS">> ELSE <<"S">>)
    ELSE CASE kind \in {"String", "Bytes"} -> <<"String">>
           [] kind = "Seq" -> <<"V">>
           [] kind = "Map" -> <<"S">>
           [] OTHER -> <<>>
BranchType(p) ==
    CASE SlotsOf(p) = <<"String">> -> "String"
      [] SlotsOf(p) = <<"S">> -> call[p].S
      [] SlotsOf(p) = <<"V">> -> call[p].V
      [] SlotsOf(p) = <<"VecS">> -> VecOf(call[p].S)

\* C7: every decode call buffers its input exactly once, chooses its branch
\* from the top-level kind of the value alone, invokes at most one payload
\* decoder, and returns that decoder's error unchanged when it fails.
C7_OneShotDispatch ==
    \A p \in Procs :
        /\ buffered[p] <= 1
        /\ Len(invoked[p]) <= 1
        /\ pc[p] = "done" => buffered[p] = 1
        /\ Decoded(p) =>
              /\ SlotsOf(p) = BranchSlots(call[p].target, InputOf(p).kind)
              /\ (Len(invoked[p]) = 1 /\ ~Decode(BranchType(p), InputOf(p)).ok)
                 => result[p] = Err(Decode(BranchType(p), InputOf(p)).err)

\* a record object without its text field has failed with SimpleStruct's own error
C7_Witness ==
    \E p \in Procs :
        /\ Decoded(p) /\ call[p].target = "StringOrStructOrVec"
        /\ call[p].S = "SimpleStruct" /\ call[p].V = "VecSimpleStruct"
        /\ InputOf(p).kind = "Map"
        /\ invoked[p] = <<Invocation("S", "SimpleStruct")>>
        /\ result[p] = Err(Error("missing_field", NoUnexp, "text"))

\* C8: when the front-end fails while the input is buffered, decode returns
\* exactly the front-end's error, classifies no shape and invokes no payload
\* decoder.
C8_FrontEndErrorPropagates ==
    \A p \in Procs :
        (call[p].target \in Targets /\ ~call[p].input.ok)
        => /\ pc[p] \in {"buffer", "done"}
           /\ value[p] = NoValue
           /\ invoked[p] = <<>>
           /\ pc[p] = "done" => result[p] = Err(call[p].input.err)

\* a SingleOrVec decode has returned the front-end's error
C8_Witness ==
    \E p \in Procs :
        /\ pc[p] = "done" /\ call[p].target = "SingleOrVec"
        /\ ~call[p].input.ok
        /\ result[p].err = Error("syntax", NoUnexp, "EOF while parsing a value")

\* C9: SingleOrVec decodes a Seq-shaped value as a sequence of S into Vec and a
\* value of every other shape with the S decoder into Single; each error it
\* returns is the front-end's or the payload decoder's, never a shape mismatch
\* of its own.
C9_SingleOrVecSplit ==
    \A p \in Procs :
        (pc[p] = "done" /\ call[p].target = "SingleOrVec")
        => IF ~call[p].input.ok THEN result[p] = Err(call[p].input.err)
           ELSE IF InputOf(p).kind = "Seq"
           THEN LET es == InputOf(p).elems
                    ds == [i \in 1..Len(es) |-> Decode(call[p].S, ItemToValue(es[i]))]
                IN  /\ invoked[p] = <<Invocation("VecS", VecOf(call[p].S))>>
                    /\ IF \A i \in 1..Len(es) : ds[i].ok
                       THEN result[p] =
                               Ok("Vec", Payload(VecOf(call[p].S), 0, <<>>,
                                     [i \in 1..Len(es) |-> PayloadToElem(ds[i].val)]))
                       ELSE \E i \in 1..Len(es) :
                               ~ds[i].ok /\ result[p] = Err(ds[i].err)
           ELSE LET d == Decode(call[p].S, InputOf(p))
                IN  /\ invoked[p] = <<Invocation("S", call[p].S)>>
                    /\ result[p] = IF d.ok THEN Ok("Single", d.val) ELSE Err(d.err)

\* a number has been decoded into Single(u8) and never met a shape check
C9_Witness ==
    \E p \in Procs :
        /\ Decoded(p) /\ call[p].target = "SingleOrVec" /\ call[p].S = "U8"
        /\ InputOf(p).kind = "U64" /\ InputOf(p).num = 18
        /\ result[p] = Ok("Single", Payload("U8", 18, <<>>, <<>>))

\* C10: encoding any variant of the three either-types gives exactly what
\* encoding its payload gives: the same output, with no wrapper or tag, or the
\* payload encoder's error.
C10_EncodeIsTransparent ==
    \A p \in Procs :
        pc[p] = "encoded"
        => /\ enc[p].res = SerializePayload(enc[p].ser, enc[p].either.payload)
           /\ enc[p].either.variant = "String"
              => enc[p].res = SOk(Val("String", 0, enc[p].either.payload.text, {}, <<>>))
           /\ (enc[p].res.ok /\ enc[p].either.payload.ty = "SimpleStruct")
              => /\ enc[p].res.out.kind = "Map"
                 /\ {e.key : e \in enc[p].res.out.fields} = {"number", "text"}

\* the String variant of StringOrStruct has been encoded as a bare string
C10_Witness ==
    \E p \in Procs :
        /\ pc[p] = "encoded" /\ enc[p].either.target = "StringOrStruct"
        /\ enc[p].either.variant = "String" /\ enc[p].either.payload.text = <<65>>
        /\ enc[p].res.ok /\ enc[p].res.out.kind = "String"

\* caller p has encoded an either value and decoded the output back
RoundTripped(p) == pc[p] = "done" /\ enc[p].ser # "None"
EncodedOf(p) == enc[p].either

C12_StringRoundTrip ==
    \A p \in Procs :
        (/\ RoundTripped(p) /\ call[p].target \in EitherTargets
         /\ EncodedOf(p).variant = "String")
        => /\ result[p].ok /\ result[p].variant = "String"
           /\ result[p].payload.text = EncodedOf(p).payload.text
           /\ result[p].payload = EncodedOf(p).payload

\* String("Aé") of StringOrStructOrVec<String, Vec<u8>> has come back
C12_Witness ==
    \E p \in Procs :
        /\ RoundTripped(p) /\ call[p].target = "StringOrStructOrVec"
        /\ call[p].S = "String" /\ call[p].V = "VecU8"
        /\ EncodedOf(p).variant = "String" /\ EncodedOf(p).payload.text = <<65, 233>>
        /\ result[p] = Ok("String", Payload("String", 0, <<65, 233>>, <<>>))

\* caller p has decoded an either value and encoded it again
ReEncoded(p) == pc[p] = "encoded" /\ call[p].target \in Targets

\* C13: a Vec variant that SingleOrVec<S> decoded encodes to a Seq-shaped
\* output, and a Single variant that it decoded encodes without a wrapper:
\* the S decoder alone reads the output back and returns the same payload.
C13_SingleOrVecRoundTrip ==
    \A p \in Procs :
        (ReEncoded(p) /\ call[p].target = "SingleOrVec" /\ enc[p].res.ok)
        => /\ EncodedOf(p).variant = result[p].variant
           /\ EncodedOf(p).variant = "Vec" => enc[p].res.out.kind = "Seq"
           /\ EncodedOf(p).variant = "Single" =>
                 \A fmt \in Formats :
                    Decode(call[p].S, Reparse(fmt, enc[p].res.out))
                       = DOk(result[p].payload)

\* Single(SimpleStruct) decoded from a record object has been encoded again
C13_Witness ==
    \E p \in Procs :
        /\ ReEncoded(p) /\ call[p].target = "SingleOrVec"
        /\ call[p].S = "SimpleStruct" /\ InputOf(p).kind = "Map"
        /\ result[p] = Ok("Single", Payload("SimpleStruct", 42, <<65>>, <<>>))
        /\ enc[p].res.ok /\ enc[p].res.out.kind = "Map"

\* both dispatchers have returned from decoding the same input
PairDone ==
    /\ pc[MainProc] = "done" /\ pc[WideProc] = "done"
    /\ call[MainProc].target = "StringOrStruct"
    /\ call[WideProc].target = "StringOrStructOrVec"

\* a shape-mismatch error of the three-way dispatcher
IsWideMismatch(e) ==
    e.class = "invalid_type" /\ e.expected = ExpectedStringOrStructOrVec

\* C14: on the same input, StringOrStruct<S> returns String(t) iff
\* StringOrStructOrVec<S,S> returns String(t), returns Struct(v) iff
\* StringOrStructOrVec<S,S> returns Struct(v) or Vec(v), and fails iff
\* StringOrStructOrVec<S,S> fails, with the same error except that a
\* shape-mismatch error says "String or Struct" instead of
\* "String, Struct or Vec".
C14_CollapseEquivalence ==
    PairDone =>
        LET n == result[MainProc]
            w == result[WideProc]
        IN  /\ n.ok <=> w.ok
            /\ n.ok =>
                  /\ n.variant \in {"String", "Struct"}
                  /\ n.variant = "String" <=> w.variant = "String"
                  /\ n.variant = "Struct" <=> w.variant \in {"Struct", "Vec"}
                  /\ n.payload = w.payload
            /\ ~n.ok =>
                  IF IsWideMismatch(w.err)
                  THEN n.err = invalid_type(w.err.unexp, "String or Struct")
                  ELSE n.err = w.err

\* a sequence came back as Vec from the three-way dispatcher and as Struct
\* from StringOrStruct, with the same payload
C14_Witness ==
    /\ PairDone
    /\ call[MainProc].S = "VecU8"
    /\ InputOf(MainProc).kind = "Seq" /\ Len(InputOf(MainProc).elems) = 1
    /\ result[WideProc].ok /\ result[WideProc].variant = "Vec"
    /\ result[MainProc] = Ok("Struct", result[WideProc].payload)

\* what a decode call returns when no other call runs: its three steps
\* one after the other
RunAlone(c) ==
    LET b == TryBuffer(c.input)
    IN  IF ~b.ok THEN b.res
        ELSE IF c.target = "SingleOrVec" THEN SingleOrVec_match(c.S, b.value).res
        ELSE LET r == deserialize_with_expected(c.S, c.V, b.value,
                                                ExpectedOf(c.target)).res
             IN  IF c.target = "StringOrStruct" /\ r.ok
                 THEN StringOrStruct_collapse(r) ELSE r

\* everything that belongs to caller q's call
LocalsOf(q) == <<pc[q], call[q], value[q], buffered[q], invoked[q], result[q], enc[q]>>

\* a returned decode call holds the result of the call run alone, a returned
\* encode call the encoding of its own value; a Value buffer exists only
\* between the buffering and the match of its call, and holds that call's input
CallsAreIsolated ==
    \A p \in Procs :
        /\ (pc[p] = "done" /\ call[p].target \in Targets)
              => result[p] = RunAlone(call[p])
        /\ pc[p] = "encoded" => enc[p].res = serialize(enc[p].ser, enc[p].either)
        /\ pc[p] = "match" => value[p] = call[p].input.value /\ buffered[p] = 1
        /\ pc[p] # "match" => value[p] = NoValue

\* a step of one call changes nothing that belongs to another call
StepIsLocal ==
    \E p \in Procs : \A q \in Procs \ {p} : LocalsOf(q)' = LocalsOf(q)

\* C15: under any interleaving of the steps of two or more calls, each call
\* returns the result it returns when run alone, and the Value buffer of one
\* call is never read or changed by another call and does not outlive its call.
C15_NoSharedState == [][StepIsLocal]_vars /\ []CallsAreIsolated

\* one call has returned a value while another call on a different input still
\* holds its Value buffer
C15_Witness ==
    \E p \in Procs, q \in Procs :
        /\ p # q
        /\ pc[p] = "match" /\ value[p].kind = "Seq"
        /\ pc[q] = "done" /\ result[q].ok /\ call[q].input.value.kind = "Map"

\* caller p's call of one of the two shape-checking either-types has
\* returned from a Bytes-shaped input
BytesDecoded(p) ==
    Decoded(p) /\ call[p].target \in EitherTargets /\ InputOf(p).kind = "Bytes"

\* the call raised the shape mismatch of its own either-type
IsShapeMismatch(p) ==
    /\ ~result[p].ok
    /\ result[p].err.class = "invalid_type"
    /\ result[p].err.expected = ExpectedOf(call[p].target)

\* the statement of C16 as the specification words it: every Bytes-shaped
\* value yields the String variant holding the text of the bytes
C16_Original ==
    \A p \in Procs :
        BytesDecoded(p)
        => /\ result[p].ok /\ result[p].variant = "String"
           /\ result[p].payload.text = Utf8Decode(InputOf(p).text).text
           /\ \A i \in DOMAIN invoked[p] : invoked[p][i].slot \notin {"S", "V"}
           /\ ~IsShapeMismatch(p)

\* C16 (amended): for StringOrStructOrVec and StringOrStruct, a Bytes-shaped
\* value is re-decoded as a string payload only: bytes that are valid UTF-8
\* yield the String variant holding their text, any other bytes fail with the
\* string decoder's own invalid-value error; neither S nor V is invoked and no
\* shape mismatch is raised.
C16_BytesShape ==
    \A p \in Procs :
        BytesDecoded(p)
        => LET u == Utf8Decode(InputOf(p).text)
           IN  /\ u.ok => result[p] = Ok("String", Payload("String", 0, u.text, <<>>))
               /\ ~u.ok => result[p] = Err(Error("invalid_value",
                                                 Unexp("Bytes", 0, InputOf(p).text),
                                                 "a string"))
               /\ invoked[p] = <<Invocation("String", "String")>>
               /\ ~IsShapeMismatch(p)

\* the two bytes of U+00E9 have been decoded into the String variant
C16_Witness ==
    \E p \in Procs :
        /\ BytesDecoded(p) /\ call[p].target = "StringOrStructOrVec"
        /\ InputOf(p).text = <<195, 169>>
        /\ result[p] = Ok("String", Payload("String", 0, <<233>>, <<>>))

\* C17: for StringOrStruct<S>, an input of Seq, Map, String or Bytes shape
\* never fails with the shape mismatch "String or Struct", so the mismatch
\* never reports Seq, Map, Str or Bytes as the unexpected kind; a Seq-shaped
\* input succeeds as Struct exactly when the S decoder accepts it and otherwise
\* fails with S's own error.
C17_SeqDecidedByPayload ==
    \A p \in Procs :
        (Decoded(p) /\ call[p].target = "StringOrStruct")
        => /\ InputOf(p).kind \in {"Seq", "Map", "String", "Bytes"}
                 => ~IsShapeMismatch(p)
           /\ IsShapeMismatch(p)
                 => /\ result[p].err.expected = "String or Struct"
                    /\ result[p].err.unexp.kind \notin {"Seq", "Map", "Str", "Bytes"}
           /\ InputOf(p).kind = "Seq"
                 => LET d == Decode(call[p].S, InputOf(p))
                    IN  result[p] = IF d.ok THEN Ok("Struct", d.val) ELSE Err(d.err)

\* a record written positionally, [1, "A"], has been decoded into
\* Struct(SimpleStruct)
C17_Witness ==
    \E p \in Procs :
        /\ Decoded(p) /\ call[p].target = "StringOrStruct"
        /\ call[p].S = "SimpleStruct"
        /\ InputOf(p).kind = "Seq" /\ Len(InputOf(p).elems) = 2
        /\ result[p] = Ok("Struct", Payload("SimpleStruct", 1, <<65>>, <<>>))

\* the encoded payload has the shape that decodes into the variant it had
ShapeKept(e, out) ==
    CASE e.variant = "String" -> out.kind = "String"
      [] e.variant = "Struct" -> out.kind = "Map"
      [] e.variant = "Vec" -> out.kind = "Seq"
      [] e.variant = "Single" -> out.kind # "Seq"

\* the variant each either-type decodes a shape into ("None": no variant)
VariantOfShape(target, kind) ==
    CASE target = "SingleOrVec" -> IF kind = "Seq" THEN "Vec" ELSE "Single"
      [] kind \in {"String", "Bytes"} -> "String"
      [] kind = "Map" -> "Struct"
      [] kind = "Seq" -> IF target = "StringOrStruct" THEN "Struct" ELSE "Vec"
      [] OTHER -> "None"

\* the round trip gave back the variant that was encoded
VariantKept(p) == result[p].ok /\ result[p].variant = EncodedOf(p).variant

\* the statement of C18 as the specification words it: whenever the encoded
\* shape is not the one of the variant, the round trip changes the variant or
\* fails
C18_Original ==
    \A p \in Procs :
        RoundTripped(p)
        => /\ result[p].ok => result[p].variant
                                 = VariantOfShape(call[p].target, enc[p].res.out.kind)
           /\ ShapeKept(EncodedOf(p), enc[p].res.out)
                 => result[p] = Ok(EncodedOf(p).variant, EncodedOf(p).payload)
           /\ ~ShapeKept(EncodedOf(p), enc[p].res.out) => ~VariantKept(p)

\* C18 (amended): the variant returned by decode(encode(x)) is determined by
\* the shape of the encoded payload; it is the variant of x, with an equal
\* payload, when String encodes to String shape, Struct to Map shape, Vec to
\* Seq shape and Single to a non-Seq shape, and also when a Struct of
\* StringOrStruct encodes to Seq shape; in every other case the round trip
\* changes the variant or fails.
C18_ShapeDecidesVariant ==
    \A p \in Procs :
        RoundTripped(p)
        => LET e == EncodedOf(p)
               out == enc[p].res.out
               seqStruct == /\ e.target = "StringOrStruct" /\ e.variant = "Struct"
                            /\ out.kind = "Seq"
           IN  /\ (InputOf(p).kind = "Seq" <=> out.kind = "Seq")
               /\ (InputOf(p).kind = "Map" <=> out.kind = "Map")
               /\ (InputOf(p).kind = "String" <=> out.kind = "String")
               /\ result[p].ok => result[p].variant
                                     = VariantOfShape(call[p].target, out.kind)
               /\ (ShapeKept(e, out) \/ seqStruct)
                     => result[p] = Ok(e.variant, e.payload)
               /\ ~(ShapeKept(e, out) \/ seqStruct) => ~VariantKept(p)

\* StringOrStructOrVec::Struct(Vec<u8>) has come back through the Vec branch
C18_Witness ==
    \E p \in Procs :
        /\ RoundTripped(p) /\ call[p].target = "StringOrStructOrVec"
        /\ EncodedOf(p).variant = "Struct" /\ EncodedOf(p).payload.ty = "VecU8"
        /\ enc[p].res.out.kind = "Seq" /\ Len(enc[p].res.out.elems) = 1
        /\ result[p] = Ok("Vec", EncodedOf(p).payload)

\* caller p's decode call has returned from a Char-shaped input
CharDecoded(p) == Decoded(p) /\ InputOf(p).kind = "Char"

\* C19: for StringOrStructOrVec and StringOrStruct, a Char-shaped value is not
\* classified as a string: the decode fails with the shape mismatch reporting
\* an unexpected character, no payload decoder is invoked and the result is
\* never the String variant; SingleOrVec<S> hands the same value to the S
\* decoder for the Single variant.
C19_CharIsNotString ==
    \A p \in Procs :
        CharDecoded(p)
        => IF call[p].target \in EitherTargets
           THEN /\ result[p] = Err(invalid_type(Unexp("Char", 0, InputOf(p).text),
                                                ExpectedOf(call[p].target)))
                /\ invoked[p] = <<>>
           ELSE LET d == Decode(call[p].S, InputOf(p))
                IN  /\ invoked[p] = <<Invocation("S", call[p].S)>>
                    /\ result[p] = IF d.ok THEN Ok("Single", d.val) ELSE Err(d.err)
                    /\ call[p].S = "String"
                          => result[p] = Ok("Single", Payload("String", 0,
                                                              InputOf(p).text, <<>>))

\* the character U+00E9 has been refused by StringOrStruct<String>, whose S
\* decoder would have accepted it
C19_Witness ==
    \E p \in Procs :
        /\ CharDecoded(p) /\ call[p].target = "StringOrStruct"
        /\ call[p].S = "String" /\ InputOf(p).text = <<233>>
        /\ ~result[p].ok /\ result[p].err.unexp.kind = "Char"

====
